---- MODULE Spec2Model ----
(***************************************************************************)
(* Model of pkg/cmd/gist/create/create.go: the `gist create` command.      *)
(* Strings that the code inspects (file tokens, FileSet keys, OAuth scope  *)
(* lists) are sequences of one-character strings, so that path.Base,       *)
(* fmt.Sprintf, the regular expression, strings.Contains and sort.Strings  *)
(* are computed character by character.  File contents, the gist URL and   *)
(* message texts are never inspected by the code and are opaque strings.   *)
(***************************************************************************)
EXTENDS Integers, Sequences, FiniteSets, TLC

\* Longest argument list given on the command line.
MaxArgs == 3

----------------------------------------------------------------------------
(* Characters and string primitives of the Go library calls the code makes *)

\* The characters in use, in ascending byte order (ASCII).
Alphabet ==
  <<" ", ",", "-", ".", "/", "0", "1", "2", "3", "4", "5", "6", "7", "8", "9",
    "a", "b", "c", "d", "e", "f", "g", "h", "i", "j", "k", "l", "m", "n", "o",
    "p", "q", "r", "s", "t", "u", "v", "w", "x", "y", "z">>

\* Rank of a character in byte order; bytes compare as their ranks do.
Ord(c) == CHOOSE j \in 1..Len(Alphabet) : Alphabet[j] = c

DigitChars == <<"0", "1", "2", "3", "4", "5", "6", "7", "8", "9">>

IsDigit(c) == \E j \in 1..10 : DigitChars[j] = c

\* The %d verb of fmt.Sprintf for a non-negative int.
RECURSIVE FormatInt(_)
FormatInt(n) ==
  IF n < 10 THEN <<DigitChars[n + 1]>>
  ELSE FormatInt(n \div 10) \o <<DigitChars[(n % 10) + 1]>>

\* Go's < on strings: bytewise lexicographic.
StrLess(a, b) ==
  \E j \in 1..(Len(a) + 1) :
     /\ j <= Len(b)
     /\ \A m \in 1..(j - 1) : a[m] = b[m]
     /\ \/ j = Len(a) + 1
        \/ Ord(a[j]) < Ord(b[j])

\* strings.Contains(s, sub)
Contains(s, sub) ==
  \E k \in 0..(Len(s) - Len(sub)) : SubSeq(s, k + 1, k + Len(sub)) = sub

\* Index of the last "/" of p, 0 when there is none.
LastSlash(p) ==
  IF \E j \in 1..Len(p) : p[j] = "/"
  THEN CHOOSE j \in 1..Len(p) : p[j] = "/" /\ \A m \in (j + 1)..Len(p) : p[m] # "/"
  ELSE 0

RECURSIVE StripTrailingSlashes(_)
StripTrailingSlashes(p) ==
  IF Len(p) > 0 /\ p[Len(p)] = "/"
  THEN StripTrailingSlashes(SubSeq(p, 1, Len(p) - 1))
  ELSE p

\* path.Base(f)
Base(f) ==
  IF f = <<>> THEN <<".">>
  ELSE LET p == StripTrailingSlashes(f)
           q == SubSeq(p, LastSlash(p) + 1, Len(p))
       IN  IF q = <<>> THEN <<"/">> ELSE q

----------------------------------------------------------------------------
(* The environment: command line tokens, the file system, standard input   *)

STDIN_TOKEN == <<"-">>
A_PY == <<"a", ".", "p", "y">>
B_PY == <<"b", ".", "p", "y">>
D_A_PY == <<"d", "/", "a", ".", "p", "y">>
GISTFILE1_TXT == <<"g", "i", "s", "t", "f", "i", "l", "e", "1", ".", "t", "x", "t">>

\* The tokens a command line is made of: "-", plain files, a file in a
\* directory whose basename collides with a plain file, and a real file whose
\* name looks like a synthetic one.
Tokens == {STDIN_TOKEN, A_PY, B_PY, D_A_PY, GISTFILE1_TXT}

\* The content of each file of the file system (all different).
FileContent(f) ==
  CASE f = A_PY -> "content of a.py"
    [] f = B_PY -> "content of b.py"
    [] f = D_A_PY -> "content of d/a.py"
    [] f = GISTFILE1_TXT -> "content of gistfile1.txt"
    [] OTHER -> "content"

\* What standard input holds when the command starts.
StdinContent == "data on stdin"

\* Argument lists of at most MaxArgs tokens.
ArgLists == UNION {[1..n -> Tokens] : n \in 0..MaxArgs}

----------------------------------------------------------------------------
(* State *)

VARIABLES
  pc,            \* position of the command: "Args", "RunE", "processFiles",
                 \* "guessGistName", "message", "HttpClient", "apiCreate", "done"
  args,          \* positional arguments given on the command line
  isStdinTTY,    \* opts.IO.IsStdinTTY()
  runF,          \* whether NewCmdCreate was given a runF hook
  Filenames,     \* opts.Filenames
  fileArgs,      \* createRun's fileArgs, processFiles' filenames
  i,             \* processFiles' loop index (zero-based)
  fs,            \* processFiles' map under construction
  files,         \* createRun's files
  stdinClosed,   \* stdin.Close() has been called
  stdinReads,    \* number of ioutil.ReadAll(stdin) calls
  stdinCloses,   \* number of stdin.Close() calls
  readsOfClosed, \* number of ioutil.ReadAll(stdin) calls made on the closed stream
  fileReads,     \* paths given to ioutil.ReadFile, in order
  gistName,      \* createRun's gistName
  errOut,        \* lines written to opts.IO.ErrOut
  out,           \* lines written to opts.IO.Out
  clientCalls,   \* number of opts.HttpClient() calls
  apiCalls,      \* FileSets given to apiCreate, in order
  apiOutcome,    \* what the last apiCreate call returned
  ret,           \* the error the command returned (NoErr is nil)
  trace          \* the steps createRun has taken, in order

vars ==
  <<pc, args, isStdinTTY, runF, Filenames, fileArgs, i, fs, files, stdinClosed,
    stdinReads, stdinCloses, readsOfClosed, fileReads, gistName, errOut, out,
    clientCalls, apiCalls, apiOutcome, ret, trace>>

\* An error value: the chain of messages from outermost wrapper to cause, and
\* the path the message names (<<>> when it names none).
Err(chain, path) == [chain |-> chain, path |-> path]
NoErr == Err(<<>>, <<>>)

\* fmt.Errorf("prefix: %w", e)
Wrap(prefix, e) == Err(<<prefix>> \o e.chain, e.path)

EmptyMap == [k \in {} |-> ""]

GIST_URL == "https://gist.github.com/aa5a315d61ae9438b18d"

\* The "gist"-related OAuth scope lists an HTTP error may report
\* (the X-Oauth-Scopes header), "" among them.
SCOPES_EMPTY == <<>>
SCOPES_REPO == <<"r", "e", "p", "o">>
SCOPES_GIST == <<"g", "i", "s", "t">>
SCOPES_REPO_GIST == <<"r", "e", "p", "o", ",", " ", "g", "i", "s", "t">>
SCOPES_REPO_USER == <<"r", "e", "p", "o", ",", " ", "u", "s", "e", "r">>
ScopeLists == {SCOPES_EMPTY, SCOPES_REPO, SCOPES_GIST, SCOPES_REPO_GIST, SCOPES_REPO_USER}

\* What apiCreate may return: a gist, an api.HTTPError carrying the scope list
\* of the response, or an error that is no api.HTTPError.
ApiOutcomes ==
  {[kind |-> "ok", scopes |-> <<>>], [kind |-> "other", scopes |-> <<>>]}
    \cup {[kind |-> "HTTPError", scopes |-> sc] : sc \in ScopeLists}

NotCalled == [kind |-> "not called", scopes |-> <<>>]

----------------------------------------------------------------------------
(* The functions of create.go *)

\* The validator without its look at standard input.
ArgsCheck_IgnoresTTY(a, tty) == NoErr

\* The Args validator of the command: nil (NoErr) or a cmdutil.FlagError.
ArgsCheck(a, tty) ==
  IF Len(a) > 0 THEN NoErr
  ELSE IF tty THEN Err(<<"FlagError", "no filenames passed and nothing on STDIN">>, <<>>)
  ELSE NoErr

\* createRun without the defaulting.
DefaultFileArgs_None(filenames) == filenames

\* createRun's defaulting of the file list.
DefaultFileArgs(filenames) ==
  IF Len(filenames) = 0 THEN <<STDIN_TOKEN>> ELSE filenames

GISTFILE == <<"g", "i", "s", "t", "f", "i", "l", "e">>
DOT_TXT == <<".", "t", "x", "t">>

\* The synthetic name counted from one.
SyntheticName_OneBased(idx) == GISTFILE \o FormatInt(idx + 1) \o DOT_TXT

\* fmt.Sprintf("gistfile%d.txt", idx)
SyntheticName(idx) == GISTFILE \o FormatInt(idx) \o DOT_TXT

\* The map assignment keeping the value a key already has.
MapPut_KeepFirst(m, k, v) ==
  [x \in (DOMAIN m) \cup {k} |-> IF x \in DOMAIN m THEN m[x] ELSE v]

\* fs[filename] = string(content)
MapPut(m, k, v) == [x \in (DOMAIN m) \cup {k} |-> IF x = k THEN v ELSE m[x]]

\* Number of digits of s from position from on.
RECURSIVE DigitRun(_, _)
DigitRun(s, from) ==
  IF from <= Len(s) /\ IsDigit(s[from]) THEN 1 + DigitRun(s, from + 1) ELSE 0

\* regexp.MustCompile(`^gistfile\d+\.txt$`).MatchString(s), scanning s from
\* the left: the literal, one or more digits, the literal, the end.
MatchString(s) ==
  /\ Len(s) >= Len(GISTFILE)
  /\ SubSeq(s, 1, Len(GISTFILE)) = GISTFILE
  /\ LET d == DigitRun(s, Len(GISTFILE) + 1)
     IN  /\ d >= 1
         /\ SubSeq(s, Len(GISTFILE) + d + 1, Len(s)) = DOT_TXT

\* The keys of a map in the order a range over it yields them (any order).
RECURSIVE RangeKeys(_)
RangeKeys(S) ==
  IF S = {} THEN <<>>
  ELSE LET k == CHOOSE x \in S : TRUE IN <<k>> \o RangeKeys(S \ {k})

\* sorted with x put at its place.
RECURSIVE Insert(_, _)
Insert(sorted, x) ==
  IF sorted = <<>> THEN <<x>>
  ELSE IF StrLess(x, Head(sorted)) THEN <<x>> \o sorted
  ELSE <<Head(sorted)>> \o Insert(Tail(sorted), x)

\* sort.Strings(s)
RECURSIVE SortStrings(_)
SortStrings(s) ==
  IF s = <<>> THEN <<>> ELSE Insert(SortStrings(Tail(s)), Head(s))

\* guessGistName without the sort.
guessGistName_Unsorted(m) ==
  LET filenames == RangeKeys({k \in DOMAIN m : ~MatchString(k)})
  IN  IF Len(filenames) > 0 THEN filenames[1] ELSE <<>>

guessGistName(m) ==
  LET filenames == RangeKeys({k \in DOMAIN m : ~MatchString(k)})
  IN  IF Len(filenames) > 0 THEN SortStrings(filenames)[1] ELSE <<>>

\* A line on the status stream: the leading mark, the format and the name
\* formatted into it (<<>> when the format takes none).
Line(mark, text, name) == [mark |-> mark, text |-> text, name |-> name]

\* processMessage looking at the number of files before the name.
ProcessMessage_CountFirst(name, n) ==
  IF n > 1 THEN Line("-", "Creating gist with multiple files", <<>>)
  ELSE IF name # <<>> THEN Line("-", "Creating gist %s", name)
  ELSE Line("-", "Creating gist...", <<>>)

\* createRun's processMessage
ProcessMessage(name, n) ==
  IF name # <<>>
  THEN IF n > 1 THEN Line("-", "Creating gist with multiple files", <<>>)
       ELSE Line("-", "Creating gist %s", name)
  ELSE Line("-", "Creating gist...", <<>>)

\* createRun's completionMessage
CompletionMessage(name) ==
  IF name # <<>> THEN Line("ok", "Created gist %s", name)
  ELSE Line("ok", "Created gist", <<>>)

\* The scope test without the test for an empty list.
IsScopeError_EmptyToo(o) ==
  /\ o.kind = "HTTPError"
  /\ ~Contains(o.scopes, SCOPES_GIST)

\* Whether createRun answers a failed apiCreate with the re-authentication text.
IsScopeError(o) ==
  /\ o.kind = "HTTPError"
  /\ o.scopes # <<>>
  /\ ~Contains(o.scopes, SCOPES_GIST)

REMEDIATION == Err(<<"This command requires the 'gist' OAuth scope. Please re-authenticate">>, <<>>)

\* The error createRun returns for a failed apiCreate.
PublishError(o) ==
  IF IsScopeError(o) THEN REMEDIATION
  ELSE Wrap("X Failed to create gist", Err(<<o.kind>>, <<>>))

----------------------------------------------------------------------------
(* The command *)

Init ==
  /\ pc = "Args"
  /\ args \in ArgLists
  /\ isStdinTTY \in BOOLEAN
  /\ runF \in BOOLEAN
  /\ Filenames = <<>>
  /\ fileArgs = <<>>
  /\ i = 0
  /\ fs = EmptyMap
  /\ files = EmptyMap
  /\ stdinClosed = FALSE
  /\ stdinReads = 0
  /\ stdinCloses = 0
  /\ readsOfClosed = 0
  /\ fileReads = <<>>
  /\ gistName = <<>>
  /\ errOut = <<>>
  /\ out = <<>>
  /\ clientCalls = 0
  /\ apiCalls = <<>>
  /\ apiOutcome = NotCalled
  /\ ret = NoErr
  /\ trace = <<>>

\* cobra validates the positional arguments before it runs the command.
Args ==
  /\ pc = "Args"
  /\ LET e == ArgsCheck(args, isStdinTTY)
     IN  IF e = NoErr THEN pc' = "RunE" /\ ret' = ret
         ELSE pc' = "done" /\ ret' = e
  /\ UNCHANGED <<args, isStdinTTY, runF, Filenames, fileArgs, i, fs, files,
                 stdinClosed, stdinReads, stdinCloses, readsOfClosed, fileReads,
                 gistName, errOut, out, clientCalls, apiCalls, apiOutcome, trace>>

\* RunE with a runF hook: the hook runs in place of createRun.
RunEHook ==
  /\ pc = "RunE"
  /\ runF
  /\ Filenames' = args
  /\ pc' = "done"
  /\ UNCHANGED <<args, isStdinTTY, runF, fileArgs, i, fs, files, stdinClosed,
                 stdinReads, stdinCloses, readsOfClosed, fileReads, gistName,
                 errOut, out, clientCalls, apiCalls, apiOutcome, ret, trace>>

\* RunE without a hook: createRun starts, defaults the list and calls
\* processFiles, which makes its map and checks the list.
RunECreateRun ==
  /\ pc = "RunE"
  /\ ~runF
  /\ Filenames' = args
  /\ fileArgs' = DefaultFileArgs(args)
  /\ fs' = EmptyMap
  /\ i' = 0
  /\ trace' = Append(trace, "processFiles")
  /\ IF Len(fileArgs') = 0
     THEN /\ pc' = "done"
          /\ ret' = Wrap("failed to collect files for posting",
                         Err(<<"no files passed">>, <<>>))
     ELSE /\ pc' = "processFiles"
          /\ ret' = ret
  /\ UNCHANGED <<args, isStdinTTY, runF, files, stdinClosed, stdinReads,
                 stdinCloses, readsOfClosed, fileReads, gistName, errOut, out,
                 clientCalls, apiCalls, apiOutcome>>

\* One turn of processFiles' loop on a "-" token.  ioutil.ReadAll(stdin)
\* yields everything up to the end of the stream or fails; on a stream that
\* was closed by an earlier turn it yields what the stream's implementation
\* yields: nothing more (a reader at its end whose Close does nothing) or an
\* error (a closed file).
ReadStdin ==
  /\ pc = "processFiles"
  /\ i < Len(fileArgs)
  /\ fileArgs[i + 1] = STDIN_TOKEN
  /\ stdinReads' = stdinReads + 1
  /\ readsOfClosed' = IF stdinClosed THEN readsOfClosed + 1 ELSE readsOfClosed
  /\ \E readOk \in BOOLEAN :
       IF readOk
       THEN /\ fs' = MapPut(fs, SyntheticName(i),
                            IF stdinReads = 0 THEN StdinContent ELSE "")
            /\ stdinClosed' = TRUE
            /\ stdinCloses' = stdinCloses + 1
            /\ i' = i + 1
            /\ UNCHANGED <<pc, ret>>
       ELSE /\ pc' = "done"
            /\ ret' = Wrap("failed to collect files for posting",
                           Err(<<"failed to read from stdin">>, <<>>))
            /\ UNCHANGED <<fs, stdinClosed, stdinCloses, i>>
  /\ UNCHANGED <<args, isStdinTTY, runF, Filenames, fileArgs, files, fileReads,
                 gistName, errOut, out, clientCalls, apiCalls, apiOutcome, trace>>

\* One turn of processFiles' loop on a file token.
ReadFile ==
  /\ pc = "processFiles"
  /\ i < Len(fileArgs)
  /\ fileArgs[i + 1] # STDIN_TOKEN
  /\ LET f == fileArgs[i + 1]
     IN  /\ fileReads' = Append(fileReads, f)
         /\ \E readOk \in BOOLEAN :
              IF readOk
              THEN /\ fs' = MapPut(fs, Base(f), FileContent(f))
                   /\ i' = i + 1
                   /\ UNCHANGED <<pc, ret>>
              ELSE /\ pc' = "done"
                   /\ ret' = Wrap("failed to collect files for posting",
                                  Err(<<"failed to read file %s">>, f))
                   /\ UNCHANGED <<fs, i>>
  /\ UNCHANGED <<args, isStdinTTY, runF, Filenames, fileArgs, files, stdinClosed,
                 stdinReads, stdinCloses, readsOfClosed, gistName, errOut, out,
                 clientCalls, apiCalls, apiOutcome, trace>>

\* processFiles' loop is over: it returns its map to createRun.
ProcessFilesReturn ==
  /\ pc = "processFiles"
  /\ i = Len(fileArgs)
  /\ files' = fs
  /\ pc' = "guessGistName"
  /\ UNCHANGED <<args, isStdinTTY, runF, Filenames, fileArgs, i, fs, stdinClosed,
                 stdinReads, stdinCloses, readsOfClosed, fileReads, gistName,
                 errOut, out, clientCalls, apiCalls, apiOutcome, ret, trace>>

\* createRun names the gist.
GuessName ==
  /\ pc = "guessGistName"
  /\ gistName' = guessGistName(files)
  /\ trace' = Append(trace, "guessGistName")
  /\ pc' = "message"
  /\ UNCHANGED <<args, isStdinTTY, runF, Filenames, fileArgs, i, fs, files,
                 stdinClosed, stdinReads, stdinCloses, readsOfClosed, fileReads,
                 errOut, out, clientCalls, apiCalls, apiOutcome, ret>>

\* createRun writes the progress message to the status stream.
WriteProcessMessage ==
  /\ pc = "message"
  /\ errOut' = Append(errOut, ProcessMessage(gistName, Cardinality(DOMAIN files)))
  /\ trace' = Append(trace, "message")
  /\ pc' = "HttpClient"
  /\ UNCHANGED <<args, isStdinTTY, runF, Filenames, fileArgs, i, fs, files,
                 stdinClosed, stdinReads, stdinCloses, readsOfClosed, fileReads,
                 gistName, out, clientCalls, apiCalls, apiOutcome, ret>>

\* opts.HttpClient() gives a client.
HttpClientOk ==
  /\ pc = "HttpClient"
  /\ clientCalls' = clientCalls + 1
  /\ trace' = Append(trace, "HttpClient")
  /\ pc' = "apiCreate"
  /\ UNCHANGED <<args, isStdinTTY, runF, Filenames, fileArgs, i, fs, files,
                 stdinClosed, stdinReads, stdinCloses, readsOfClosed, fileReads,
                 gistName, errOut, out, apiCalls, apiOutcome, ret>>

\* A failed HttpClient that createRun does not return on.
HttpClientFail_Continues ==
  /\ pc = "HttpClient"
  /\ clientCalls' = clientCalls + 1
  /\ trace' = Append(trace, "HttpClient")
  /\ ret' = Err(<<"http client error">>, <<>>)
  /\ pc' = "apiCreate"
  /\ UNCHANGED <<args, isStdinTTY, runF, Filenames, fileArgs, i, fs, files,
                 stdinClosed, stdinReads, stdinCloses, readsOfClosed, fileReads,
                 gistName, errOut, out, apiCalls, apiOutcome>>

\* opts.HttpClient() fails: createRun returns its error as it is.
HttpClientFail ==
  /\ pc = "HttpClient"
  /\ clientCalls' = clientCalls + 1
  /\ trace' = Append(trace, "HttpClient")
  /\ ret' = Err(<<"http client error">>, <<>>)
  /\ pc' = "done"
  /\ UNCHANGED <<args, isStdinTTY, runF, Filenames, fileArgs, i, fs, files,
                 stdinClosed, stdinReads, stdinCloses, readsOfClosed, fileReads,
                 gistName, errOut, out, apiCalls, apiOutcome>>

\* apiCreate returns a gist: the completion message, then the URL.
ApiCreateOk ==
  /\ pc = "apiCreate"
  /\ apiCalls' = Append(apiCalls, files)
  /\ apiOutcome' = [kind |-> "ok", scopes |-> <<>>]
  /\ trace' = Append(trace, "apiCreate")
  /\ errOut' = Append(errOut, CompletionMessage(gistName))
  /\ out' = Append(out, GIST_URL)
  /\ ret' = NoErr
  /\ pc' = "done"
  /\ UNCHANGED <<args, isStdinTTY, runF, Filenames, fileArgs, i, fs, files,
                 stdinClosed, stdinReads, stdinCloses, readsOfClosed, fileReads,
                 gistName, clientCalls>>

\* A failed apiCreate after which the URL is written all the same.
ApiCreateFail_WritesUrl ==
  /\ pc = "apiCreate"
  /\ apiCalls' = Append(apiCalls, files)
  /\ \E o \in ApiOutcomes \ {[kind |-> "ok", scopes |-> <<>>]} :
       /\ apiOutcome' = o
       /\ ret' = PublishError(o)
  /\ trace' = Append(trace, "apiCreate")
  /\ out' = Append(out, GIST_URL)
  /\ pc' = "done"
  /\ UNCHANGED <<args, isStdinTTY, runF, Filenames, fileArgs, i, fs, files,
                 stdinClosed, stdinReads, stdinCloses, readsOfClosed, fileReads,
                 gistName, errOut, clientCalls>>

\* apiCreate fails: createRun returns the error that answers the failure.
ApiCreateFail ==
  /\ pc = "apiCreate"
  /\ apiCalls' = Append(apiCalls, files)
  /\ \E o \in ApiOutcomes \ {[kind |-> "ok", scopes |-> <<>>]} :
       /\ apiOutcome' = o
       /\ ret' = PublishError(o)
  /\ trace' = Append(trace, "apiCreate")
  /\ pc' = "done"
  /\ UNCHANGED <<args, isStdinTTY, runF, Filenames, fileArgs, i, fs, files,
                 stdinClosed, stdinReads, stdinCloses, readsOfClosed, fileReads,
                 gistName, errOut, out, clientCalls>>

Next ==
  \/ Args
  \/ RunEHook
  \/ RunECreateRun
  \/ ReadStdin
  \/ ReadFile
  \/ ProcessFilesReturn
  \/ GuessName
  \/ WriteProcessMessage
  \/ HttpClientOk
  \/ HttpClientFail
  \/ ApiCreateOk
  \/ ApiCreateFail

Spec == Init /\ [][Next]_vars

----------------------------------------------------------------------------
(* guessGistName on its own, over FileSets with any keys *)

GISTFILE0_TXT == <<"g", "i", "s", "t", "f", "i", "l", "e", "0", ".", "t", "x", "t">>
GISTFILE10_TXT == <<"g", "i", "s", "t", "f", "i", "l", "e", "1", "0", ".", "t", "x", "t">>
GISTFILE_TXT == <<"g", "i", "s", "t", "f", "i", "l", "e", ".", "t", "x", "t">>
GISTFILE1_TXT_BAK ==
  <<"g", "i", "s", "t", "f", "i", "l", "e", "1", ".", "t", "x", "t", ".", "b", "a", "k">>
A_GISTFILE1_TXT ==
  <<"a", "g", "i", "s", "t", "f", "i", "l", "e", "1", ".", "t", "x", "t">>
A_ == <<"a">>

\* Keys a FileSet may have: synthetic names, names that nearly are, plain names.
KeyNames ==
  {A_PY, B_PY, A_, GISTFILE0_TXT, GISTFILE1_TXT, GISTFILE10_TXT, GISTFILE_TXT,
   GISTFILE1_TXT_BAK, A_GISTFILE1_TXT}

InitGuess ==
  /\ pc = "guessGistName"
  /\ \E S \in SUBSET KeyNames : files = [k \in S |-> "content"]
  /\ args = <<>>
  /\ isStdinTTY = FALSE
  /\ runF = FALSE
  /\ Filenames = <<>>
  /\ fileArgs = <<>>
  /\ i = 0
  /\ fs = files
  /\ stdinClosed = FALSE
  /\ stdinReads = 0
  /\ stdinCloses = 0
  /\ readsOfClosed = 0
  /\ fileReads = <<>>
  /\ gistName = <<>>
  /\ errOut = <<>>
  /\ out = <<>>
  /\ clientCalls = 0
  /\ apiCalls = <<>>
  /\ apiOutcome = NotCalled
  /\ ret = NoErr
  /\ trace = <<"processFiles">>

SpecGuess == InitGuess /\ [][GuessName]_vars

----------------------------------------------------------------------------
(* Properties *)

\* processFiles has returned its map to createRun without an error.
Collected == pc = "guessGistName" \/ Len(trace) >= 2

\* createRun has computed gistName.
Named == Len(trace) >= 2

\* createRun has written the progress message.
Announced == Len(trace) >= 3

CompletionLines == {j \in 1..Len(errOut) : errOut[j].mark = "ok"}

CollectFailed ==
  /\ pc = "done"
  /\ Len(ret.chain) >= 1
  /\ ret.chain[1] = "failed to collect files for posting"

ClientFailed == pc = "done" /\ ret.chain = <<"http client error">>

\* C1: the gist URL is written to the primary output exactly once if and only
\* if apiCreate succeeded; when collection, client acquisition or apiCreate
\* fails, nothing is written to the primary output and no completion message
\* is written to the status stream.
C1_UrlIffCreated ==
  /\ out \in {<<>>, <<GIST_URL>>}
  /\ (out = <<GIST_URL>>) <=> (apiOutcome.kind = "ok")
  /\ (apiOutcome.kind # "ok") => (CompletionLines = {})
  /\ (CollectFailed \/ ClientFailed \/ apiOutcome.kind \in {"HTTPError", "other"})
       => (out = <<>> /\ CompletionLines = {})
  /\ (apiOutcome.kind = "ok") => (pc = "done" /\ ret = NoErr /\ Len(errOut) = 2)

C1_Witness ==
  /\ pc = "done"
  /\ apiOutcome.kind = "ok"
  /\ out = <<GIST_URL>>
  /\ CompletionLines = {2}

\* k is the basename of the path f: f without its directories.
IsBasenameOf(k, f) ==
  /\ \A j \in 1..Len(k) : k[j] # "/"
  /\ \/ f = k
     \/ \E n \in 1..Len(f) : f[n] = "/" /\ SubSeq(f, n + 1, Len(f)) = k

\* C2: for a non-empty list of file tokens (none of them "-") that are all
\* read, processFiles returns a map whose keys are the basenames of the tokens
\* and whose value for a key is the content of the last token with that
\* basename.
C2_BasenamesLastWins ==
  (Collected /\ \A j \in 1..Len(fileArgs) : fileArgs[j] # STDIN_TOKEN) =>
     /\ Len(fileArgs) >= 1
     /\ \A j \in 1..Len(fileArgs) : \E k \in DOMAIN files : IsBasenameOf(k, fileArgs[j])
     /\ \A k \in DOMAIN files :
          \E j \in 1..Len(fileArgs) :
             /\ IsBasenameOf(k, fileArgs[j])
             /\ \A m \in (j + 1)..Len(fileArgs) : ~IsBasenameOf(k, fileArgs[m])
             /\ files[k] = FileContent(fileArgs[j])

C2_Witness ==
  /\ Collected
  /\ fileArgs = <<D_A_PY, B_PY, A_PY>>
  /\ DOMAIN files = {A_PY, B_PY}
  /\ files[A_PY] = "content of a.py"

\* The name gistfile{n}.txt for a one-digit n.
GistfileN(n) == GISTFILE \o <<DigitChars[n + 1]>> \o DOT_TXT

\* C3: each "-" token at zero-based position n of the list (positions counted
\* over all tokens) that processFiles has worked through has put the key
\* gistfile{n}.txt into the map, and the map processFiles returns has worked
\* through them all; for the list <<"-">> the map returned has the one key
\* gistfile0.txt, with all of standard input as its value.
C3_SyntheticKeyByPosition ==
  /\ \A j \in 1..i : (fileArgs[j] = STDIN_TOKEN) => (GistfileN(j - 1) \in DOMAIN fs)
  /\ Collected => (i = Len(fileArgs) /\ files = fs)
  /\ (Collected /\ fileArgs = <<STDIN_TOKEN>>) =>
        (DOMAIN files = {GistfileN(0)} /\ files[GistfileN(0)] = StdinContent)

C3_Witness ==
  /\ Collected
  /\ fileArgs = <<A_PY, B_PY, STDIN_TOKEN>>
  /\ DOMAIN files = {A_PY, B_PY, GistfileN(2)}
  /\ files[GistfileN(2)] = StdinContent

\* C4: standard input is read to its end at most once and closed at most
\* once, and is never read after it was closed.
C4_StdinReadAndClosedOnce ==
  /\ stdinReads <= 1
  /\ stdinCloses <= 1
  /\ readsOfClosed = 0

\* k has the form gistfileN.txt, N one or more decimal digits.
IsSyntheticPattern(k) ==
  \E d \in 1..Len(k) :
     /\ Len(k) = Len(GISTFILE) + d + Len(DOT_TXT)
     /\ \A j \in 1..Len(GISTFILE) : k[j] = GISTFILE[j]
     /\ \A j \in 1..d : k[Len(GISTFILE) + j] \in {"0", "1", "2", "3", "4", "5", "6", "7", "8", "9"}
     /\ \A j \in 1..Len(DOT_TXT) : k[Len(GISTFILE) + d + j] = DOT_TXT[j]

\* C5: guessGistName returns the lexicographically smallest key that is not
\* of the form gistfileN.txt, and "" exactly when every key is of that form
\* (so for the empty map); keys gistfile0.txt, b.py, a.py give a.py and keys
\* gistfile0.txt, gistfile1.txt give "".
C5_SmallestRealName ==
  Named =>
    LET real == {k \in DOMAIN files : ~IsSyntheticPattern(k)}
    IN  /\ (gistName = <<>>) <=> (real = {})
        /\ (real # {}) =>
             /\ gistName \in real
             /\ \A k \in real : k = gistName \/ StrLess(gistName, k)
        /\ (DOMAIN files = {GISTFILE0_TXT, B_PY, A_PY}) => (gistName = A_PY)
        /\ (DOMAIN files = {GISTFILE0_TXT, GISTFILE1_TXT}) => (gistName = <<>>)

C5_Witness ==
  /\ Named
  /\ DOMAIN files = {GISTFILE0_TXT, B_PY, A_PY}
  /\ gistName = A_PY

HasGistText(sc) ==
  \E k \in 1..Len(sc) :
     /\ k + 3 <= Len(sc)
     /\ sc[k] = "g" /\ sc[k + 1] = "i" /\ sc[k + 2] = "s" /\ sc[k + 3] = "t"

GenericPublishError(e) ==
  Len(e.chain) = 2 /\ e.chain[1] = "X Failed to create gist"

\* C7 as stated: a failed apiCreate whose HTTP error reports a scope list
\* without "gist", the empty list included, gives the re-authentication
\* error; every other failure gives the generic wrapped error.
C7_RemediationAlsoOnEmptyScopes ==
  /\ (apiOutcome.kind = "HTTPError" /\ ~HasGistText(apiOutcome.scopes)) => (ret = REMEDIATION)
  /\ (apiOutcome.kind = "other" \/ (apiOutcome.kind = "HTTPError" /\ HasGistText(apiOutcome.scopes)))
       => GenericPublishError(ret)

\* C7 amended: a failed apiCreate whose HTTP error reports a non-empty scope
\* list in which "gist" does not occur gives the re-authentication error;
\* every other failure, an HTTP error with an empty scope list included,
\* gives the generic wrapped error.
C7_RemediationOnNonEmptyScopes ==
  /\ (apiOutcome.kind = "HTTPError" /\ apiOutcome.scopes # <<>> /\ ~HasGistText(apiOutcome.scopes))
       => (ret = REMEDIATION)
  /\ (\/ apiOutcome.kind = "other"
      \/ (apiOutcome.kind = "HTTPError"
            /\ (apiOutcome.scopes = <<>> \/ HasGistText(apiOutcome.scopes))))
       => (GenericPublishError(ret) /\ ret # REMEDIATION)

C7_Witness ==
  /\ pc = "done"
  /\ apiOutcome = [kind |-> "HTTPError", scopes |-> SCOPES_EMPTY]
  /\ GenericPublishError(ret)

\* C8: createRun always gives processFiles a non-empty list, so processFiles'
\* "no files passed" error is never returned, and every FileSet given to
\* apiCreate has at least one entry.
C8_NonEmptyListAndFileSet ==
  /\ (trace # <<>>) => (Len(fileArgs) >= 1)
  /\ \A j \in 1..Len(ret.chain) : ret.chain[j] # "no files passed"
  /\ \A j \in 1..Len(apiCalls) : Cardinality(DOMAIN apiCalls[j]) >= 1
  /\ Collected => (Cardinality(DOMAIN files) >= 1)

C8_Witness ==
  /\ args = <<>>
  /\ Len(apiCalls) = 1
  /\ DOMAIN apiCalls[1] = {GistfileN(0)}

IsFlagError(e) == Len(e.chain) >= 1 /\ e.chain[1] = "FlagError"

NoIO ==
  /\ stdinReads = 0
  /\ stdinCloses = 0
  /\ fileReads = <<>>
  /\ errOut = <<>>
  /\ out = <<>>
  /\ clientCalls = 0
  /\ apiCalls = <<>>

\* C9: with no arguments and an interactive standard input the validation of
\* the arguments fails with a flag error and nothing is read, written or
\* called, before or after; with an argument, or a standard input that is not
\* interactive, the validation passes.
C9_NoInputIsFlagError ==
  /\ (pc = "Args") => (NoIO /\ ret = NoErr)
  /\ (pc # "Args" /\ Len(args) = 0 /\ isStdinTTY) =>
        (pc = "done" /\ IsFlagError(ret) /\ NoIO /\ trace = <<>>)
  /\ (pc # "Args" /\ (Len(args) > 0 \/ ~isStdinTTY)) =>
        (~IsFlagError(ret) /\ (pc = "done" => (runF \/ trace # <<>>)))

C9_Witness ==
  /\ pc = "done"
  /\ args = <<>>
  /\ isStdinTTY
  /\ IsFlagError(ret)

CreateRunSteps == <<"processFiles", "guessGistName", "message", "HttpClient", "apiCreate">>

\* C10: createRun takes its steps in the one order processFiles,
\* guessGistName, progress message, HttpClient, apiCreate, none twice;
\* apiCreate is called at most once and only after processFiles and
\* HttpClient succeeded; an error ends the command; a failed read ends it
\* before the progress message, HttpClient and apiCreate, with an error that
\* names the path of the token being read (standard input for "-"); a failed
\* HttpClient ends it before apiCreate.
C10_LinearSingleShot ==
  /\ Len(trace) <= Len(CreateRunSteps)
  /\ trace = SubSeq(CreateRunSteps, 1, Len(trace))
  /\ Len(apiCalls) <= 1
  /\ clientCalls <= 1
  /\ Len(errOut) <= 2
  /\ (apiCalls # <<>>) => (Collected /\ clientCalls = 1 /\ apiCalls[1] = files /\ Len(errOut) >= 1)
  /\ (ret # NoErr) => (pc = "done")
  /\ CollectFailed =>
       /\ errOut = <<>> /\ out = <<>> /\ clientCalls = 0 /\ apiCalls = <<>>
       /\ trace = <<"processFiles">>
       /\ i < Len(fileArgs)
       /\ \/ /\ ret.chain[2] = "failed to read file %s"
             /\ ret.path = fileArgs[i + 1]
             /\ ret.path # STDIN_TOKEN
             /\ fileReads[Len(fileReads)] = ret.path
          \/ /\ ret.chain[2] = "failed to read from stdin"
             /\ fileArgs[i + 1] = STDIN_TOKEN
  /\ ClientFailed => (apiCalls = <<>> /\ out = <<>> /\ Len(errOut) = 1)

C10_Witness ==
  /\ CollectFailed
  /\ fileArgs = <<A_PY, D_A_PY>>
  /\ ret = Err(<<"failed to collect files for posting", "failed to read file %s">>, D_A_PY)
  /\ i = 1

====
